---- MODULE Spec2Model ----
(***************************************************************************)
(* A model of comptime-rs: the two proc-macro entry points (comptime! in   *)
(* src/src/lib.rs, #[comptime_fn] in src/src/comptime_impl.rs), the        *)
(* argument reconstruction (filter_rustc_args), the dependency merger      *)
(* (merge_externs) and cleanup.                                            *)
(*                                                                         *)
(* Rust strings are TLA+ strings; an argument list is a sequence of        *)
(* strings; Option<T> is a record [some, v]; a HashMap is a function whose *)
(* DOMAIN is its key set, and its iteration order (unspecified in Rust) is *)
(* an input of whatever iterates it.                                       *)
(***************************************************************************)
EXTENDS Integers, Sequences, FiniteSets, TLC

(***************************************************************************)
(* Bounds of the model.                                                    *)
(***************************************************************************)
\* arguments after the invoked program in the argument lists of SpecArgs
MaxArgs == 3
\* dependencies of a merger input: its --extern declarations plus the
\* entries of its output directory
MaxDeps == 3

(***************************************************************************)
(* str and Option helpers (std).                                           *)
(***************************************************************************)
None == [some |-> FALSE, v |-> ""]
Some(x) == [some |-> TRUE, v |-> x]

char_at(s, i) == SubSeq(s, i, i)

starts_with(s, p) == Len(s) >= Len(p) /\ SubSeq(s, 1, Len(p)) = p

ends_with(s, p) == Len(s) >= Len(p) /\ SubSeq(s, Len(s) - Len(p) + 1, Len(s)) = p

\* index of the first c of s at or after i, 0 when there is none
RECURSIVE find_from(_, _, _)
find_from(s, c, i) ==
    IF i > Len(s) THEN 0
    ELSE IF char_at(s, i) = c THEN i
    ELSE find_from(s, c, i + 1)

find(s, c) == find_from(s, c, 1)

\* index of the last c of s at or before i, 0 when there is none
RECURSIVE rfind_from(_, _, _)
rfind_from(s, c, i) ==
    IF i < 1 THEN 0
    ELSE IF char_at(s, i) = c THEN i
    ELSE rfind_from(s, c, i - 1)

rfind(s, c) == rfind_from(s, c, Len(s))

\* s.split(c).nth(n): the n-th piece (from 0) of s cut at every c
RECURSIVE split_nth(_, _, _)
split_nth(s, c, n) ==
    LET i == find(s, c) IN
    IF n = 0 THEN Some(IF i = 0 THEN s ELSE SubSeq(s, 1, i - 1))
    ELSE IF i = 0 THEN None
    ELSE split_nth(SubSeq(s, i + 1, Len(s)), c, n - 1)

\* s.rsplit_once(c).0, and s.rsplitn(2, c).nth(1): what precedes the last c
rsplit_once_0(s, c) ==
    LET i == rfind(s, c) IN
    IF i = 0 THEN None ELSE Some(SubSeq(s, 1, i - 1))

\* s.strip_prefix(p)
strip_prefix(s, p) ==
    IF starts_with(s, p) THEN Some(SubSeq(s, Len(p) + 1, Len(s))) ELSE None

\* Option::unwrap_or
unwrap_or(o, d) == IF o.some THEN o.v ELSE d

\* Path::file_name: the last component, None when the path ends in ".."
file_name(p) ==
    LET f == SubSeq(p, rfind(p, "/") + 1, Len(p)) IN
    IF f = "" \/ f = ".." THEN None ELSE Some(f)

\* Path::extension: what follows the last '.' of the file name, None when
\* there is no file name, no '.', or the only '.' starts the file name
extension(p) ==
    LET f == file_name(p) IN
    IF ~f.some THEN None
    ELSE LET i == rfind(f.v, ".") IN
         IF i <= 1 THEN None ELSE Some(SubSeq(f.v, i + 1, Len(f.v)))

\* Path::join of a directory and a relative file name
join(dir, f) ==
    IF dir = "" \/ ends_with(dir, "/") THEN dir \o f ELSE dir \o "/" \o f

\* HashMap::insert (the last insertion for a key wins)
insert(m, k, x) == [y \in (DOMAIN m) \cup {k} |-> IF y = k THEN x ELSE m[y]]

\* the orders in which a HashMap with key set S can be iterated
Orders(S) ==
    {o \in [1..Cardinality(S) -> S] : \A i, j \in DOMAIN o : o[i] = o[j] => i = j}

(***************************************************************************)
(* filter_rustc_args: the two copies.                                      *)
(***************************************************************************)
RECURSIVE filter_loop(_, _, _)
filter_loop(args, i, skip) ==
    IF i > Len(args) THEN <<>>
    ELSE LET arg == args[i] IN
         IF skip THEN filter_loop(args, i + 1, FALSE)
         ELSE IF arg = "--crate-type" \/ arg = "--crate-name" \/ arg = "--extern"
         THEN filter_loop(args, i + 1, TRUE)
         ELSE IF \/ ends_with(arg, ".rs")
                 \/ arg = "--test"
                 \/ arg = "rustc"
                 \/ starts_with(arg, "--emit")
         THEN filter_loop(args, i + 1, FALSE)
         ELSE <<arg>> \o filter_loop(args, i + 1, FALSE)

\* lib.rs: skip starts true, to skip the invoked program
filter_rustc_args(args) == filter_loop(args, 1, TRUE)

RECURSIVE filter_loop_impl(_, _, _)
filter_loop_impl(args, i, skip) ==
    IF i > Len(args) THEN <<>>
    ELSE LET arg == args[i] IN
         IF skip THEN filter_loop_impl(args, i + 1, FALSE)
         ELSE IF arg = "--crate-type" \/ arg = "--crate-name" \/ arg = "--extern"
         THEN filter_loop_impl(args, i + 1, TRUE)
         ELSE IF \/ ends_with(arg, ".rs")
                 \/ arg = "--test"
                 \/ arg = "rustc"
                 \/ starts_with(arg, "--emit")
         THEN filter_loop_impl(args, i + 1, FALSE)
         ELSE <<arg>> \o filter_loop_impl(args, i + 1, FALSE)

\* comptime_impl.rs
filter_rustc_args_impl(args) == filter_loop_impl(args, 1, TRUE)

\* the flags both entry points push after the filtered arguments
FixedFlags ==
    <<"--crate-name", "comptime_bin", "--crate-type", "bin", "--emit=dep-info,link">>

\* get_arg: the argument that follows the first occurrence of flag
get_arg(args, flag) ==
    IF \E p \in 1..Len(args) : args[p] = flag
    THEN LET p == CHOOSE q \in 1..Len(args) :
                      args[q] = flag /\ \A r \in 1..(q - 1) : args[r] # flag
         IN IF p + 1 <= Len(args) THEN Some(args[p + 1]) ELSE None
    ELSE None

(***************************************************************************)
(* merge_externs of lib.rs (expression form).  A result is a record        *)
(* [err, rlibs, flags]: err is "" or names the panic, rlibs is the         *)
(* cargo_rlibs table when the panic struck (or at the end), flags the      *)
(* returned list.  A directory entry is a record [fname, created].         *)
(***************************************************************************)
Failed(e, rlibs) == [err |-> e, rlibs |-> rlibs, flags |-> <<>>]

\* first pass: the --extern declarations of the Build Context
RECURSIVE explicit_loop(_, _, _, _)
explicit_loop(args, i, next_is_extern, rlibs) ==
    IF i > Len(args) THEN [err |-> "", rlibs |-> rlibs, flags |-> <<>>]
    ELSE LET arg == args[i] IN
         IF next_is_extern
         THEN LET lib_name == split_nth(arg, "=", 0)
                  path == split_nth(arg, "=", 1)
              IN IF ~path.some THEN Failed("unwrap: extern has no path", rlibs)
                 ELSE LET ext == extension(path.v) IN
                 IF ~ext.some THEN Failed("unwrap: path has no extension", rlibs)
                 ELSE explicit_loop(args, i + 1, arg = "--extern",
                          IF ext.v = "rlib"
                          THEN insert(rlibs, lib_name.v, path.v)
                          ELSE rlibs)
         ELSE explicit_loop(args, i + 1, arg = "--extern", rlibs)

\* the filter_map over read_dir: entries named lib*.rlib, in directory order
rlib_dirents(dirents) ==
    SelectSeq(dirents,
              LAMBDA de : starts_with(de.fname, "lib") /\ ends_with(de.fname, ".rlib"))

\* sort_by_key(created) without Reverse: stable, oldest first
RECURSIVE sort_by_created_asc(_)
sort_by_created_asc(s) ==
    IF s = <<>> THEN <<>>
    ELSE LET x == s[Len(s)]
             t == sort_by_created_asc(SubSeq(s, 1, Len(s) - 1))
             k == Cardinality({i \in 1..Len(t) : t[i].created <= x.created})
         IN SubSeq(t, 1, k) \o <<x>> \o SubSeq(t, k + 1, Len(t))

\* sort_by_key(Reverse(created)): stable, most recent first
RECURSIVE sort_by_created_desc(_)
sort_by_created_desc(s) ==
    IF s = <<>> THEN <<>>
    ELSE LET x == s[Len(s)]
             t == sort_by_created_desc(SubSeq(s, 1, Len(s) - 1))
             k == Cardinality({i \in 1..Len(t) : t[i].created >= x.created})
         IN SubSeq(t, 1, k) \o <<x>> \o SubSeq(t, k + 1, Len(t))

\* second pass: a discovered artifact is inserted only under a vacant key
RECURSIVE discovered_loop(_, _, _, _)
discovered_loop(deps_dir, dep_dirents, i, rlibs) ==
    IF i > Len(dep_dirents) THEN [err |-> "", rlibs |-> rlibs, flags |-> <<>>]
    ELSE LET fname == dep_dirents[i].fname
             lib_name == rsplit_once_0(fname, "-")
         IN IF ~ends_with(fname, ".rlib")
            THEN discovered_loop(deps_dir, dep_dirents, i + 1, rlibs)
            ELSE IF ~lib_name.some THEN Failed("unwrap: file name has no '-'", rlibs)
            ELSE discovered_loop(deps_dir, dep_dirents, i + 1,
                     IF lib_name.v \in DOMAIN rlibs THEN rlibs
                     ELSE insert(rlibs, lib_name.v, join(deps_dir, fname)))

\* the cargo_rlibs table after both passes
cargo_rlibs(deps_dir, args, dir_ok, dirents) ==
    LET ex == explicit_loop(args, 1, FALSE, <<>>) IN
    IF ex.err # "" THEN ex
    ELSE IF ~dir_ok THEN Failed("unwrap: read_dir failed", ex.rlibs)
    ELSE discovered_loop(deps_dir, sort_by_created_desc(rlib_dirents(dirents)), 1, ex.rlibs)

\* the name emitted for a key: &lib_name["lib".len()..]
emit_name(lib_name) == SubSeq(lib_name, Len("lib") + 1, Len(lib_name))

\* the emitted flags, the table iterated in the given order
RECURSIVE emit_loop(_, _, _)
emit_loop(rlibs, order, i) ==
    IF i > Len(order) THEN <<>>
    ELSE <<"--extern", emit_name(order[i]) \o "=" \o rlibs[order[i]]>>
             \o emit_loop(rlibs, order, i + 1)

\* lib.rs 241-247; the slice panics on a key shorter than "lib"
merged_externs(t, order) ==
    IF t.err # "" THEN t
    ELSE IF \E k \in DOMAIN t.rlibs : Len(k) < Len("lib")
    THEN Failed("slice index out of range", t.rlibs)
    ELSE [err |-> "", rlibs |-> t.rlibs, flags |-> emit_loop(t.rlibs, order, 1)]

merge_externs(deps_dir, args, dir_ok, dirents, order) ==
    merged_externs(cargo_rlibs(deps_dir, args, dir_ok, dirents), order)

(***************************************************************************)
(* merge_externs of comptime_impl.rs (declaration form).  Every failure    *)
(* calls cleanup(cleanup_files) and then panics with the message in err;   *)
(* the caller of this operator runs that cleanup.                          *)
(***************************************************************************)
RECURSIVE explicit_loop_impl(_, _, _, _)
explicit_loop_impl(args, i, next_is_extern, rlibs) ==
    IF i > Len(args) THEN [err |-> "", rlibs |-> rlibs, flags |-> <<>>]
    ELSE LET arg == args[i] IN
         IF next_is_extern
         THEN LET lib_name == split_nth(arg, "=", 0)
                  path == split_nth(arg, "=", 1)
              IN IF ~lib_name.some THEN Failed("Invalid cmd arguments", rlibs)
                 ELSE IF ~path.some
                 THEN Failed("Failed to get the path of library", rlibs)
                 ELSE LET ext == extension(path.v) IN
                 IF ~ext.some THEN Failed("Failed to get the extension", rlibs)
                 ELSE explicit_loop_impl(args, i + 1, arg = "--extern",
                          IF ext.v = "rlib"
                          THEN insert(rlibs, lib_name.v, path.v)
                          ELSE rlibs)
         ELSE explicit_loop_impl(args, i + 1, arg = "--extern", rlibs)

RECURSIVE discovered_loop_impl(_, _, _, _)
discovered_loop_impl(deps_dir, dep_dirents, i, rlibs) ==
    IF i > Len(dep_dirents) THEN [err |-> "", rlibs |-> rlibs, flags |-> <<>>]
    ELSE LET fname == dep_dirents[i].fname
             lib_name == rsplit_once_0(fname, "-")
         IN IF ~ends_with(fname, ".rlib")
            THEN discovered_loop_impl(deps_dir, dep_dirents, i + 1, rlibs)
            ELSE IF ~lib_name.some THEN Failed("Lib name contained no \"-\"", rlibs)
            ELSE discovered_loop_impl(deps_dir, dep_dirents, i + 1,
                     IF lib_name.v \in DOMAIN rlibs THEN rlibs
                     ELSE insert(rlibs, lib_name.v, join(deps_dir, fname)))

cargo_rlibs_impl(deps_dir, args, dir_ok, dirents) ==
    LET ex == explicit_loop_impl(args, 1, FALSE, <<>>) IN
    IF ex.err # "" THEN ex
    ELSE IF ~dir_ok THEN Failed("Failed to read dependancies", ex.rlibs)
    ELSE discovered_loop_impl(deps_dir, sort_by_created_desc(rlib_dirents(dirents)),
                              1, ex.rlibs)

\* the name emitted for a key: lib_name.strip_prefix("lib").unwrap_or(lib_name)
emit_name_impl(lib_name) == unwrap_or(strip_prefix(lib_name, "lib"), lib_name)

\* an emission that keeps, of the keys with one emitted name, only the one
\* the iteration meets first
RECURSIVE emit_loop_dedup(_, _, _)
emit_loop_dedup(rlibs, order, i) ==
    IF i > Len(order) THEN <<>>
    ELSE (IF \E j \in 1..(i - 1) : emit_name_impl(order[j]) = emit_name_impl(order[i])
          THEN <<>>
          ELSE <<"--extern", emit_name_impl(order[i]) \o "=" \o rlibs[order[i]]>>)
             \o emit_loop_dedup(rlibs, order, i + 1)

RECURSIVE emit_loop_impl(_, _, _)
emit_loop_impl(rlibs, order, i) ==
    IF i > Len(order) THEN <<>>
    ELSE <<"--extern", emit_name_impl(order[i]) \o "=" \o rlibs[order[i]]>>
             \o emit_loop_impl(rlibs, order, i + 1)

\* comptime_impl.rs 280-290
merged_externs_impl(t, order) ==
    IF t.err # "" THEN t
    ELSE [err |-> "", rlibs |-> t.rlibs, flags |-> emit_loop_impl(t.rlibs, order, 1)]

merge_externs_impl(deps_dir, args, dir_ok, dirents, order) ==
    merged_externs_impl(cargo_rlibs_impl(deps_dir, args, dir_ok, dirents), order)

(***************************************************************************)
(* State.                                                                  *)
(***************************************************************************)
VARIABLES
    \* argument reconstruction on its own: the Build Context, the form that
    \* reconstructed ("" before), the reconstructed list
    f_args, f_form, f_rustc_args,
    \* the dependency merger on its own: the Build Context, the output
    \* directory (readable or not, its entries in read_dir order), and the
    \* results of the calls made so far, each [form, err, rlibs, flags]
    \* m_calls is how many calls the caller makes
    m_args, m_dir_ok, m_dirents, m_runs, m_calls,
    \* the evaluations of one compilation: the Build Context (std::env::args),
    \* the output directory as read_dir shows it, the files on disk, and per
    \* evaluation a record of its locals and of what it did (see NewEval);
    \* args[e] is the Build Context of the compiler process that runs
    \* evaluation e, content[p] the text that file p holds (for a helper
    \* source the block written into it, for a helper binary the block it
    \* was built from)
    args, dir_ok, dirents, files, content, ev,
    \* one block from its capture to the value at the call site: the block,
    \* the day of the build and the day the built program runs, the
    \* statement reached, what the helper printed, the tokens spliced
    r_block, r_built, r_run, r_pc, r_stdout, r_spliced,
    \* cleanup on its own: the files on disk, the list it is given, the
    \* paths whose deletion the system refuses, and what the call did
    \* (None before the call)
    c_files, c_list, c_deny, c_out

f_vars == <<f_args, f_form, f_rustc_args>>
m_vars == <<m_args, m_dir_ok, m_dirents, m_runs, m_calls>>
p_vars == <<args, dir_ok, dirents, files, content, ev>>
r_vars == <<r_block, r_built, r_run, r_pc, r_stdout, r_spliced>>
c_vars == <<c_files, c_list, c_deny, c_out>>

SeqsUpTo(S, n) == UNION {[1..k -> S] : k \in 0..n}

(***************************************************************************)
(* Argument reconstruction: inputs and the two actions.                    *)
(***************************************************************************)
ArgPool ==
    {"--crate-name", "--crate-type", "--extern", "--test", "--emit=link",
     "--crate-name=app", "--crate-type=lib", "app", "lib", "rustc", "m.rs", "-O"}

\* the invoked program, then up to MaxArgs arguments
ArgLists == {<<"rustc">> \o a : a \in SeqsUpTo(ArgPool, MaxArgs)}

f_Idle == f_args = <<>> /\ f_form = "" /\ f_rustc_args = <<>>

f_Init == f_args \in ArgLists /\ f_form = "" /\ f_rustc_args = <<>>

\* lib.rs 117-122
ReconstructExpr ==
    /\ f_form = "" /\ f_args # <<>>
    /\ f_form' = "expr"
    /\ f_rustc_args' = filter_rustc_args(f_args) \o FixedFlags
    /\ UNCHANGED <<f_args, m_vars, p_vars, r_vars, c_vars>>

\* comptime_impl.rs 83-88
ReconstructDecl ==
    /\ f_form = "" /\ f_args # <<>>
    /\ f_form' = "decl"
    /\ f_rustc_args' = filter_rustc_args_impl(f_args) \o FixedFlags
    /\ UNCHANGED <<f_args, m_vars, p_vars, r_vars, c_vars>>

(***************************************************************************)
(* The dependency merger: inputs and the two actions.                      *)
(***************************************************************************)
deps_dir == "d"

ExternPool ==
    {"foo=d/libfoo-1.rlib", "bar=d/libbar-1.rlib", "libfoo=x/libfoo-9.rlib",
     "cc=d/libcc-1.rlib", "foo=d/libfoo.so", "foo"}

RECURSIVE extern_args(_)
extern_args(xs) ==
    IF xs = <<>> THEN <<>> ELSE <<"--extern", Head(xs)>> \o extern_args(Tail(xs))

FnamePool == {"libfoo-1.rlib", "libfoo-2.rlib", "libfoo.rlib", "foo.d"}

Times == {1, 2}

\* a directory holds a file name once
Listings(n) ==
    {l \in SeqsUpTo([fname : FnamePool, created : Times], n) :
        \A i, j \in DOMAIN l : l[i].fname = l[j].fname => i = j}

m_Idle ==
    /\ m_args = <<>> /\ m_dir_ok = TRUE /\ m_dirents = <<>>
    /\ m_runs = <<>> /\ m_calls = 0

\* a Build Context and an output directory with at most n dependencies in
\* all (declared and discovered); the merger will be called calls times
m_Init(n, calls) ==
    /\ \E xs \in SeqsUpTo(ExternPool, n) :
          /\ m_args = <<"rustc", "--out-dir", deps_dir>> \o extern_args(xs)
          /\ m_dirents \in Listings(n - Len(xs))
    /\ m_dir_ok \in BOOLEAN
    /\ ~m_dir_ok => m_dirents = <<>>
    /\ m_runs = <<>>
    /\ m_calls = calls

\* a second call is made in the form of the first
CanMerge(form) ==
    /\ Len(m_runs) < m_calls
    /\ m_runs # <<>> => m_runs[1].form = form

\* lib.rs 123: merge_externs(&out_dir, &args)
MergeExpr ==
    /\ CanMerge("expr")
    /\ LET t == cargo_rlibs(deps_dir, m_args, m_dir_ok, m_dirents) IN
       \E order \in Orders(DOMAIN t.rlibs) :
          LET r == merged_externs(t, order) IN
          m_runs' = Append(m_runs, [form |-> "expr", err |-> r.err,
                                    rlibs |-> r.rlibs, flags |-> r.flags])
    /\ UNCHANGED <<m_args, m_dir_ok, m_dirents, m_calls, f_vars, p_vars, r_vars, c_vars>>

\* comptime_impl.rs 89: merge_externs(out_dir, &args, &cleanup_files)
MergeDecl ==
    /\ CanMerge("decl")
    /\ LET t == cargo_rlibs_impl(deps_dir, m_args, m_dir_ok, m_dirents) IN
       \E order \in Orders(DOMAIN t.rlibs) :
          LET r == merged_externs_impl(t, order) IN
          m_runs' = Append(m_runs, [form |-> "decl", err |-> r.err,
                                    rlibs |-> r.rlibs, flags |-> r.flags])
    /\ UNCHANGED <<m_args, m_dir_ok, m_dirents, m_calls, f_vars, p_vars, r_vars, c_vars>>

(***************************************************************************)
(* One evaluation.  Its record holds the locals of the entry point         *)
(*   form            "expr" (comptime!, lib.rs) or "decl" (comptime_fn)    *)
(*   block           the captured block, as text                           *)
(*   pc              the statement the entry point is at, "done" at return *)
(*   disambiguator   the hash that names the helper source                 *)
(*   comptime_rs, comptime_bin, out_dir, rustc_args, cleanup_files         *)
(*   stdout          the captured output of the helper                     *)
(*   outcome         "" while running; "result", "compile_error" (err!) or *)
(*                   "panic" at the end                                    *)
(*   reported        the error messages shown, in order                    *)
(*   result          the expression returned                               *)
(* and a history of what happened                                          *)
(*   stages          the stages executed, in order                         *)
(*   failure         the stage that failed, "" if none did                 *)
(*   created         the files this evaluation created                     *)
(*   undeleted       the files it tried to delete and could not            *)
(***************************************************************************)
Range(l) == {l[i] : i \in DOMAIN l}
Last(l) == l[Len(l)]

Blocks == {"1 + 1", "now()"}
Instants == {"t1", "t2"}

\* the helper's output: bytes that are UTF-8 or not, and that syn::parse_str
\* accepts as an expression or not
HelperOutputs ==
    {[text |-> "2", utf8 |-> TRUE, expr |-> TRUE],
     [text |-> "a b", utf8 |-> TRUE, expr |-> FALSE],
     [text |-> "say \"hi\" \\ bye", utf8 |-> TRUE, expr |-> FALSE],
     [text |-> "\\xff", utf8 |-> FALSE, expr |-> FALSE]}

NoOutput == [text |-> "", utf8 |-> TRUE, expr |-> FALSE]

\* how the compiler reads tokens that are one string literal: the text
\* between the quotes with the escapes undone; None for any other tokens
RECURSIVE lit_scan(_, _, _)
lit_scan(tokens, i, acc) ==
    IF i > Len(tokens) THEN None
    ELSE IF char_at(tokens, i) = "\""
    THEN (IF i = Len(tokens) THEN Some(acc) ELSE None)
    ELSE IF char_at(tokens, i) = "\\"
    THEN (IF i + 1 <= Len(tokens)
          THEN lit_scan(tokens, i + 2, acc \o char_at(tokens, i + 1))
          ELSE None)
    ELSE lit_scan(tokens, i + 1, acc \o char_at(tokens, i))

lit_value(tokens) ==
    IF starts_with(tokens, "\"") THEN lit_scan(tokens, 2, "") ELSE None

\* syn::parse_str::<syn::Expr>: the expression, or Err
parse_str(out) == IF out.expr THEN Some(out.text) ELSE None

\* the text written between the quotes when no escape is applied
unescaped(value) == value

\* the text of a string literal token: what Literal::string writes between
\* the quotes, a backslash before every quote and backslash
RECURSIVE escape(_)
escape(value) ==
    IF value = "" THEN ""
    ELSE (IF char_at(value, 1) \in {"\"", "\\"} THEN "\\" ELSE "")
            \o char_at(value, 1) \o escape(SubSeq(value, 2, Len(value)))

\* the tokens without any quoting
raw_tokens(value) == value

\* syn::LitStr::new(value, span), as the tokens it becomes
LitStr_new(value) == "\"" \o escape(value) \o "\""

\* the expression the splicer hands back for a decoded output
comptime_expr(out) ==
    LET parsed == parse_str(out) IN
    IF parsed.some THEN parsed.v ELSE LitStr_new(out.text)

\* the standard error a subprocess leaves, as bytes; "#" stands for a byte
\* sequence that is not valid UTF-8, "?" for U+FFFD
Stderrs == {"error[E0308]", "bad #"}

\* String::from_utf8: the text, or Err for bytes that are not UTF-8
from_utf8(bytes) == IF find(bytes, "#") = 0 THEN Some(bytes) ELSE None

\* String::from_utf8_lossy: every invalid sequence becomes U+FFFD
RECURSIVE from_utf8_lossy(_)
from_utf8_lossy(bytes) ==
    IF bytes = "" THEN ""
    ELSE (IF char_at(bytes, 1) = "#" THEN "?" ELSE char_at(bytes, 1))
            \o from_utf8_lossy(SubSeq(bytes, 2, Len(bytes)))

\* the panic of Result::unwrap on the Err of String::from_utf8
UnwrapFromUtf8 == "called Result::unwrap() on an Err value: FromUtf8Error"

\* the format strings of the two errors that carry a standard error
CouldNotCompile(stderr) == "could not compile comptime expr:\n\n" \o stderr \o "\n"
CouldNotRun(stderr) == "could not run comptime expr:\n\n" \o stderr \o "\n"

\* DefaultHasher over what the entry point feeds it, as text
hash(fed) == "h(" \o fed \o ")"

\* the functions under #[comptime_fn], without their block: attributes,
\* visibility, signature
ItemFns ==
    {[attrs |-> <<"#[inline]", "#[must_use]">>, vis |-> "pub",
      sig |-> "fn at_comptime() -> u8"],
     [attrs |-> <<>>, vis |-> "", sig |-> "fn test() -> u8"]}

NoItem == [attrs |-> <<>>, vis |-> "", sig |-> "", block |-> <<>>]

\* a rewriting that loses the visibility
rewritten_private(attrs, vis, sig, result) ==
    [attrs |-> attrs, vis |-> "", sig |-> sig, block |-> <<result>>]

\* comptime_impl.rs 148-153: quote!( #(#attrs)* #vis #sig { #result } )
rewritten(attrs, vis, sig, result) ==
    [attrs |-> attrs, vis |-> vis, sig |-> sig, block |-> <<result>>]

NewEval(form, block) ==
    [form |-> form, block |-> block, pc |-> "parse", disambiguator |-> "",
     comptime_rs |-> "", comptime_bin |-> "", out_dir |-> "",
     rustc_args |-> <<>>, cleanup_files |-> <<>>, stdout |-> NoOutput,
     now |-> "", stderr |-> None, ran |-> None,
     attrs |-> <<>>, vis |-> "", sig |-> "", returned |-> NoItem,
     outcome |-> "", reported |-> <<>>, result |-> "",
     stages |-> <<>>, failure |-> "", created |-> {}, undeleted |-> {}]

\* the Build Contexts and output directories of the evaluations
FullContext ==
    <<"rustc", "--crate-name", "app", "m.rs", "--crate-type", "bin",
      "-C", "extra-filename=-x", "--out-dir", "d", "--extern", "foo=d/libfoo-1.rlib">>

Contexts ==
    {[args |-> FullContext, dir_ok |-> TRUE,
      dirents |-> <<[fname |-> "libfoo-1.rlib", created |-> 1]>>],
     [args |-> FullContext, dir_ok |-> TRUE,
      dirents |-> <<[fname |-> "libfoo-2.rlib", created |-> 2],
                    [fname |-> "libfoo-1.rlib", created |-> 1]>>],
     [args |-> FullContext, dir_ok |-> FALSE, dirents |-> <<>>],
     [args |-> <<"rustc", "--crate-name", "app", "m.rs">>, dir_ok |-> TRUE, dirents |-> <<>>],
     [args |-> <<"rustc", "m.rs", "--out-dir">>, dir_ok |-> TRUE, dirents |-> <<>>],
     [args |-> <<"rustc", "m.rs", "--out-dir", "d", "--extern", "foo">>,
      dir_ok |-> TRUE, dirents |-> <<>>],
     [args |-> <<"rustc", "m.rs", "--out-dir", "d", "--extern", "foo=d/libfoo">>,
      dir_ok |-> TRUE, dirents |-> <<>>],
     [args |-> <<"rustc", "m.rs", "--out-dir", "d", "--extern", "foo=d/libfoo.so">>,
      dir_ok |-> TRUE, dirents |-> <<[fname |-> "libfoo-1.rlib", created |-> 1]>>],
     [args |-> FullContext, dir_ok |-> TRUE,
      dirents |-> <<[fname |-> "libfoo.rlib", created |-> 1]>>]}

\* the Build Contexts of two compiler processes that the build system runs
\* at once with one output directory: two crates whose file names carry an
\* extra-filename, or two crates whose file names carry none
ConcurrentContexts ==
    {<<FullContext,
       <<"rustc", "--crate-name", "dep", "l.rs", "--crate-type", "lib",
         "-C", "extra-filename=-y", "--out-dir", "d", "--extern", "foo=d/libfoo-1.rlib">> >>,
     <<<<"rustc", "--crate-name", "app", "m.rs", "--crate-type", "cdylib",
         "--out-dir", "d">>,
       <<"rustc", "--crate-name", "dep", "l.rs", "--crate-type", "cdylib",
         "--out-dir", "d">> >>}

p_Idle ==
    /\ args = <<>> /\ dir_ok = TRUE /\ dirents = <<>> /\ files = {}
    /\ content = <<>> /\ ev = <<>>

\* n evaluations about to start; no helper file exists yet
p_Init(n) ==
    /\ \E c \in Contexts :
          args = [e \in 1..n |-> c.args] /\ dir_ok = c.dir_ok /\ dirents = c.dirents
    /\ files = {} /\ content = <<>>
    /\ ev \in [1..n -> {NewEval(f, b) : f \in {"expr", "decl"}, b \in Blocks}]

\* two evaluations, one in each of two concurrent compiler processes
p_Concurrent ==
    /\ args \in ConcurrentContexts
    /\ dir_ok = TRUE /\ dirents = <<[fname |-> "libfoo-1.rlib", created |-> 1]>>
    /\ files = {} /\ content = <<>>
    /\ ev \in [1..2 -> {NewEval(f, b) : f \in {"expr", "decl"}, b \in Blocks}]

\* std::fs::remove_file: it removes a file that exists unless the system
\* denies it
removed(fs, path, deny) == IF path \in fs /\ path \notin deny THEN fs \ {path} ELSE fs
remove_failed(fs, path, deny) == path \notin fs \/ path \in deny

\* a cleanup that gives up at the first deletion that fails
RECURSIVE cleanup_first_failure(_, _, _)
cleanup_first_failure(fs, list, deny) ==
    IF list = <<>> THEN [files |-> fs, failed_files |-> <<>>]
    ELSE IF remove_failed(fs, Head(list), deny)
    THEN [files |-> fs, failed_files |-> <<Head(list)>>]
    ELSE cleanup_first_failure(removed(fs, Head(list), deny), Tail(list), deny)

\* cleanup (comptime_impl.rs 156-166): every file of the list is tried; the
\* ones that could not be deleted are collected and make it panic
RECURSIVE cleanup(_, _, _)
cleanup(fs, list, deny) ==
    IF list = <<>> THEN [files |-> fs, failed_files |-> <<>>]
    ELSE LET rest == cleanup(removed(fs, Head(list), deny), Tail(list), deny) IN
         [files |-> rest.files,
          failed_files |-> IF remove_failed(fs, Head(list), deny)
                           THEN <<Head(list)>> \o rest.failed_files
                           ELSE rest.failed_files]

CleanupPanic == "Failed to delete files"

\* what the files hold after files were created or deleted: a file that
\* stays keeps its text, a file that is new is empty
kept(c, fs) == [p \in fs |-> IF p \in DOMAIN c THEN c[p] ELSE ""]

\* ... and after text was written to the file path
stored(c, fs, path, text) == [p \in fs |-> IF p = path THEN text ELSE kept(c, fs)[p]]

\* an entry point that repeats once the statement that failed
AbortOrRetry(s, stage, how, msg) ==
    IF stage \in Range(s.stages)
    THEN [s EXCEPT !.pc = "done", !.outcome = how, !.reported = Append(@, msg),
                   !.stages = Append(@, stage), !.failure = stage]
    ELSE [s EXCEPT !.stages = Append(@, stage)]

\* the entry point stops with an error at the stage it is in
Abort(s, stage, how, msg) ==
    [s EXCEPT !.pc = "done", !.outcome = how, !.reported = Append(@, msg),
              !.stages = Append(@, stage), !.failure = stage]

\* { cleanup(&cleanup_files); panic!(msg) }: when cleanup panics, its panic
\* is the one that unwinds and panic!(msg) is never reached
AbortAfterCleanup(s, stage, msg, c) ==
    [Abort(s, stage, "panic", IF c.failed_files = <<>> THEN msg ELSE CleanupPanic)
        EXCEPT !.stages = Append(@, "cleanup"),
               !.undeleted = @ \cup Range(c.failed_files)]

\* the entry point goes on to the next statement
Go(s, stage, next) == [s EXCEPT !.pc = next, !.stages = Append(@, stage)]

At(e, form, pc) == e \in DOMAIN ev /\ ev[e].form = form /\ ev[e].pc = pc

\* the binary that rustc links: <out-dir>/<crate name><extra-filename>
extra_filename(as) ==
    IF \E i \in DOMAIN as : starts_with(as[i], "extra-filename=")
    THEN LET i == CHOOSE j \in DOMAIN as :
                      /\ starts_with(as[j], "extra-filename=")
                      /\ \A k \in 1..(j - 1) : ~starts_with(as[k], "extra-filename=")
         IN unwrap_or(split_nth(as[i], "=", 1), "")
    ELSE ""

(***************************************************************************)
(* comptime! (lib.rs 81-172).                                              *)
(***************************************************************************)
\* 89: parse_macro_input!(input as BlockInner)
comptime_parse(e) ==
    /\ At(e, "expr", "parse")
    /\ \E parsed \in BOOLEAN :
          ev' = [ev EXCEPT ![e] =
                    IF parsed THEN Go(@, "capture", "out_dir")
                    ELSE Abort(@, "capture", "compile_error", "syn parse error")]
    /\ UNCHANGED <<args, dir_ok, dirents, files, content, f_vars, m_vars, r_vars, c_vars>>

\* 91-96
comptime_out_dir(e) ==
    /\ At(e, "expr", "out_dir")
    /\ LET out_dir == get_arg(args[e], "--out-dir") IN
       ev' = [ev EXCEPT ![e] =
                 IF out_dir.some
                 THEN [Go(@, "out_dir", "write") EXCEPT !.out_dir = out_dir.v]
                 ELSE Abort(@, "out_dir", "compile_error",
                            "comptime failed: could not determine rustc out dir.")]
    /\ UNCHANGED <<args, dir_ok, dirents, files, content, f_vars, m_vars, r_vars, c_vars>>

\* 98-115: the file name is a hash of the block's text; std::fs::write
\* creates the file and writes it, and either can fail
comptime_write(e) ==
    /\ At(e, "expr", "write")
    /\ LET comptime_disambiguator == hash(ev[e].block)
           comptime_rs == join(ev[e].out_dir, "comptime-" \o comptime_disambiguator \o ".rs")
       IN \E io \in {"ok", "create failed", "write failed"} :
          /\ files' = IF io = "create failed" THEN files ELSE files \cup {comptime_rs}
          /\ ev' = [ev EXCEPT ![e] =
                       LET s == [@ EXCEPT !.disambiguator = comptime_disambiguator,
                                          !.comptime_rs = comptime_rs,
                                          !.created = IF io = "create failed" THEN @
                                                      ELSE @ \cup {comptime_rs}]
                       IN IF io = "ok" THEN Go(s, "synthesize", "filter")
                          ELSE Abort(s, "synthesize", "panic", "could not write comptime.rs")]
          /\ content' = stored(content, files', comptime_rs,
                                IF io = "ok" THEN ev[e].block ELSE "")
    /\ UNCHANGED <<args, dir_ok, dirents, f_vars, m_vars, r_vars, c_vars>>

\* 117-122
comptime_filter(e) ==
    /\ At(e, "expr", "filter")
    /\ ev' = [ev EXCEPT ![e] =
                 [Go(@, "reconstruct", "merge")
                     EXCEPT !.rustc_args = filter_rustc_args(args[e]) \o FixedFlags]]
    /\ UNCHANGED <<args, dir_ok, dirents, files, content, f_vars, m_vars, r_vars, c_vars>>

\* 123-124: a panic of merge_externs unwinds through comptime
comptime_merge(e) ==
    /\ At(e, "expr", "merge")
    /\ LET t == cargo_rlibs(ev[e].out_dir, args[e], dir_ok, dirents) IN
       \E order \in Orders(DOMAIN t.rlibs) :
          LET r == merged_externs(t, order) IN
          ev' = [ev EXCEPT ![e] =
                    IF r.err = ""
                    THEN [Go(@, "merge", "rustc")
                             EXCEPT !.rustc_args = @ \o r.flags \o <<ev[e].comptime_rs>>]
                    ELSE Abort(@, "merge", "panic", r.err)]
    /\ UNCHANGED <<args, dir_ok, dirents, files, content, f_vars, m_vars, r_vars, c_vars>>

\* 126-135: rustc cannot be spawned, or exits unsuccessfully, or links the
\* binary; 137-142: the binary's path
comptime_rustc(e) ==
    /\ At(e, "expr", "rustc")
    /\ LET comptime_bin ==
               join(ev[e].out_dir, "comptime_bin" \o extra_filename(args[e]))
           linked == join(unwrap_or(get_arg(ev[e].rustc_args, "--out-dir"), ""),
                          "comptime_bin" \o extra_filename(ev[e].rustc_args))
           src == Last(ev[e].rustc_args)
       IN \/ /\ ev' = [ev EXCEPT ![e] =
                          Abort(@, "build", "panic", "could not invoke rustc")]
             /\ UNCHANGED <<files, content>>
          \/ \E stderr \in Stderrs :
                /\ ev' = [ev EXCEPT ![e] =
                             LET s == [@ EXCEPT !.stderr = Some(stderr)]
                                 text == from_utf8(stderr)
                             IN IF text.some
                                THEN Abort(s, "build", "compile_error",
                                           CouldNotCompile(text.v))
                                ELSE Abort(s, "build", "panic", UnwrapFromUtf8)]
                /\ UNCHANGED <<files, content>>
          \/ /\ src \in files /\ content[src] # ""
             /\ files' = files \cup {linked}
             /\ content' = stored(content, files', linked, content[src])
             /\ ev' = [ev EXCEPT ![e] =
                          [Go(@, "build", "run")
                              EXCEPT !.comptime_bin = comptime_bin,
                                     !.created = @ \cup {linked}]]
    /\ UNCHANGED <<args, dir_ok, dirents, f_vars, m_vars, r_vars, c_vars>>

\* 144-153: the binary cannot be spawned (always so when it does not exist),
\* or exits unsuccessfully, or prints its output
comptime_run(e) ==
    /\ At(e, "expr", "run")
    /\ LET bin == ev[e].comptime_bin IN
       \/ ev' = [ev EXCEPT ![e] =
                    Abort(@, "run", "panic", "could not invoke comptime_bin")]
       \/ /\ bin \in files
          /\ \E stderr \in Stderrs :
                ev' = [ev EXCEPT ![e] =
                          LET s == [@ EXCEPT !.stderr = Some(stderr),
                                             !.ran = Some(content[bin])]
                              text == from_utf8(stderr)
                          IN IF text.some
                             THEN Abort(s, "run", "compile_error", CouldNotRun(text.v))
                             ELSE Abort(s, "run", "panic", UnwrapFromUtf8)]
       \/ /\ bin \in files
          /\ \E out \in HelperOutputs :
                ev' = [ev EXCEPT ![e] =
                          [Go(@, "run", "splice")
                              EXCEPT !.stdout = out, !.ran = Some(content[bin])]]
    /\ UNCHANGED <<args, dir_ok, dirents, files, content, f_vars, m_vars, r_vars, c_vars>>

\* 155-166: output that is no expression becomes a string literal
comptime_splice(e) ==
    /\ At(e, "expr", "splice")
    /\ ev' = [ev EXCEPT ![e] =
                 IF ~ev[e].stdout.utf8
                 THEN Abort(@, "splice", "compile_error", "comptime expr output was not utf8")
                 ELSE [Go(@, "splice", "remove")
                          EXCEPT !.result = comptime_expr(ev[e].stdout)]]
    /\ UNCHANGED <<args, dir_ok, dirents, files, content, f_vars, m_vars, r_vars, c_vars>>

\* 168-171: remove_file(..).ok() drops the error of a failed deletion; then
\* the expression is returned
comptime_remove(e) ==
    /\ At(e, "expr", "remove")
    /\ \E deny \in SUBSET {ev[e].comptime_rs, ev[e].comptime_bin} :
          LET fs1 == removed(files, ev[e].comptime_rs, deny) IN
          /\ files' = removed(fs1, ev[e].comptime_bin, deny)
          /\ ev' = [ev EXCEPT ![e] =
                       [Go(@, "cleanup", "done")
                           EXCEPT !.outcome = "result",
                                  !.undeleted =
                                      {p \in {ev[e].comptime_rs} : remove_failed(files, p, deny)}
                                      \cup {p \in {ev[e].comptime_bin} : remove_failed(fs1, p, deny)}]]
    /\ content' = kept(content, files')
    /\ UNCHANGED <<args, dir_ok, dirents, f_vars, m_vars, r_vars, c_vars>>

(***************************************************************************)
(* #[comptime_fn] (comptime_impl.rs 15-155).                               *)
(***************************************************************************)
\* 19-35: parse_macro_input!(input as ItemFn); the hasher is fed
\* Instant::now() and the block's text
comptime_impl_parse(e) ==
    /\ At(e, "decl", "parse")
    /\ \/ ev' = [ev EXCEPT ![e] = Abort(@, "capture", "compile_error", "syn parse error")]
       \/ \E now \in Instants, input \in ItemFns :
             \* two readings of the clock differ
             /\ \A o \in DOMAIN ev : ev[o].now # now
             /\ ev' = [ev EXCEPT ![e] =
                          [Go(@, "capture", "create_dir")
                              EXCEPT !.attrs = input.attrs, !.vis = input.vis,
                                     !.sig = input.sig, !.now = now,
                                     !.disambiguator = hash(now \o "," \o ev[e].block)]]
    /\ UNCHANGED <<args, dir_ok, dirents, files, content, f_vars, m_vars, r_vars, c_vars>>

\* 36-46: create_dir("comptime"); AlreadyExists is accepted, any other error
\* runs cleanup on the still empty list and panics
comptime_impl_create_dir(e) ==
    /\ At(e, "decl", "create_dir")
    /\ \E io \in {"ok", "AlreadyExists", "other error"} :
          LET comptime_rs == "comptime/comptime-" \o ev[e].disambiguator \o ".rs" IN
          ev' = [ev EXCEPT ![e] =
                    IF io = "other error"
                    THEN AbortAfterCleanup(@, "synthesize", "Failed to create directory",
                                           cleanup(files, ev[e].cleanup_files, {}))
                    ELSE [@ EXCEPT !.pc = "open", !.comptime_rs = comptime_rs,
                                   !.cleanup_files = Append(@, comptime_rs)]]
    /\ UNCHANGED <<args, dir_ok, dirents, files, content, f_vars, m_vars, r_vars, c_vars>>

\* 48-55: OpenOptions::new().create(true).write(true).open(&comptime_rs)
comptime_impl_open(e) ==
    /\ At(e, "decl", "open")
    /\ \/ /\ files' = files \cup {ev[e].comptime_rs}
          /\ ev' = [ev EXCEPT ![e] =
                       [@ EXCEPT !.pc = "write", !.created = @ \cup {ev[e].comptime_rs}]]
       \/ \E deny \in SUBSET Range(ev[e].cleanup_files) :
             LET c == cleanup(files, ev[e].cleanup_files, deny) IN
             /\ files' = c.files
             /\ ev' = [ev EXCEPT ![e] =
                          AbortAfterCleanup(@, "synthesize", "Failed to create comptime_rs", c)]
    /\ content' = kept(content, files')
    /\ UNCHANGED <<args, dir_ok, dirents, f_vars, m_vars, r_vars, c_vars>>

\* 56-68: write_all; rustfmt's outcome is ignored
comptime_impl_write(e) ==
    /\ At(e, "decl", "write")
    /\ \/ /\ ev[e].comptime_rs \in files
          /\ ev' = [ev EXCEPT ![e] = Go(@, "synthesize", "out_dir")]
          /\ content' = stored(content, files, ev[e].comptime_rs, ev[e].block)
          /\ UNCHANGED files
       \/ \E deny \in SUBSET Range(ev[e].cleanup_files) :
             LET c == cleanup(files, ev[e].cleanup_files, deny) IN
             /\ files' = c.files
             /\ content' = kept(content, files')
             /\ ev' = [ev EXCEPT ![e] =
                          AbortAfterCleanup(@, "synthesize", "Failed to write to comptime_rs", c)]
    /\ UNCHANGED <<args, dir_ok, dirents, f_vars, m_vars, r_vars, c_vars>>

\* 69-81: the panic is raised without cleanup
comptime_impl_out_dir(e) ==
    /\ At(e, "decl", "out_dir")
    /\ LET out_dir == get_arg(args[e], "--out-dir") IN
       ev' = [ev EXCEPT ![e] =
                 IF out_dir.some
                 THEN [Go(@, "out_dir", "filter") EXCEPT !.out_dir = out_dir.v]
                 ELSE Abort(@, "out_dir", "panic",
                            "comptime failed: could not determine rustc out dir.")]
    /\ UNCHANGED <<args, dir_ok, dirents, files, content, f_vars, m_vars, r_vars, c_vars>>

\* 83-88
comptime_impl_filter(e) ==
    /\ At(e, "decl", "filter")
    /\ ev' = [ev EXCEPT ![e] =
                 [Go(@, "reconstruct", "merge")
                     EXCEPT !.rustc_args = filter_rustc_args_impl(args[e]) \o FixedFlags]]
    /\ UNCHANGED <<args, dir_ok, dirents, files, content, f_vars, m_vars, r_vars, c_vars>>

\* 89-90: every failure inside merge_externs is cleanup, then panic
comptime_impl_merge(e) ==
    /\ At(e, "decl", "merge")
    /\ LET t == cargo_rlibs_impl(ev[e].out_dir, args[e], dir_ok, dirents) IN
       \E order \in Orders(DOMAIN t.rlibs) :
          LET r == merged_externs_impl(t, order) IN
          IF r.err = ""
          THEN /\ ev' = [ev EXCEPT ![e] =
                            [Go(@, "merge", "rustc")
                                EXCEPT !.rustc_args = @ \o r.flags \o <<ev[e].comptime_rs>>]]
               /\ UNCHANGED files
          ELSE \E deny \in SUBSET Range(ev[e].cleanup_files) :
                  LET c == cleanup(files, ev[e].cleanup_files, deny) IN
                  /\ files' = c.files
                  /\ ev' = [ev EXCEPT ![e] = AbortAfterCleanup(@, "merge", r.err, c)]
    /\ content' = kept(content, files')
    /\ UNCHANGED <<args, dir_ok, dirents, f_vars, m_vars, r_vars, c_vars>>

\* 92-115: a spawn failure is cleanup, then panic; an unsuccessful exit is a
\* panic without cleanup; on success the binary's path joins cleanup_files
comptime_impl_rustc(e) ==
    /\ At(e, "decl", "rustc")
    /\ LET comptime_bin ==
               join(ev[e].out_dir, "comptime_bin" \o extra_filename(args[e]))
           linked == join(unwrap_or(get_arg(ev[e].rustc_args, "--out-dir"), ""),
                          "comptime_bin" \o extra_filename(ev[e].rustc_args))
           src == Last(ev[e].rustc_args)
       IN \/ \E deny \in SUBSET Range(ev[e].cleanup_files) :
                LET c == cleanup(files, ev[e].cleanup_files, deny) IN
                /\ files' = c.files
                /\ content' = kept(content, files')
                /\ ev' = [ev EXCEPT ![e] =
                             AbortAfterCleanup(@, "build", "Failed to call rustc", c)]
          \/ \E stderr \in Stderrs :
                /\ ev' = [ev EXCEPT ![e] =
                             Abort([@ EXCEPT !.stderr = Some(stderr)], "build", "panic",
                                   CouldNotCompile(from_utf8_lossy(stderr)))]
                /\ UNCHANGED <<files, content>>
          \/ /\ src \in files /\ content[src] # ""
             /\ files' = files \cup {linked}
             /\ content' = stored(content, files', linked, content[src])
             /\ ev' = [ev EXCEPT ![e] =
                          [Go(@, "build", "run")
                              EXCEPT !.comptime_bin = comptime_bin,
                                     !.cleanup_files = Append(@, comptime_bin),
                                     !.created = @ \cup {linked}]]
    /\ UNCHANGED <<args, dir_ok, dirents, f_vars, m_vars, r_vars, c_vars>>

\* 117-127
comptime_impl_run(e) ==
    /\ At(e, "decl", "run")
    /\ LET bin == ev[e].comptime_bin IN
       \/ \E deny \in SUBSET Range(ev[e].cleanup_files) :
             LET c == cleanup(files, ev[e].cleanup_files, deny) IN
             /\ files' = c.files
             /\ content' = kept(content, files')
             /\ ev' = [ev EXCEPT ![e] =
                          AbortAfterCleanup(@, "run", "Failed to execute bin file", c)]
       \/ /\ bin \in files
          /\ \E stderr \in Stderrs :
                ev' = [ev EXCEPT ![e] =
                          Abort([@ EXCEPT !.stderr = Some(stderr),
                                          !.ran = Some(content[bin])],
                                "run", "panic", CouldNotRun(from_utf8_lossy(stderr)))]
          /\ UNCHANGED <<files, content>>
       \/ /\ bin \in files
          /\ \E out \in HelperOutputs :
                ev' = [ev EXCEPT ![e] =
                          [Go(@, "run", "splice")
                              EXCEPT !.stdout = out, !.ran = Some(content[bin])]]
          /\ UNCHANGED <<files, content>>
    /\ UNCHANGED <<args, dir_ok, dirents, f_vars, m_vars, r_vars, c_vars>>

\* 129-141
comptime_impl_splice(e) ==
    /\ At(e, "decl", "splice")
    /\ ev' = [ev EXCEPT ![e] =
                 IF ~ev[e].stdout.utf8
                 THEN Abort(@, "splice", "panic", "comptime expr output was not utf8")
                 ELSE [Go(@, "splice", "remove")
                          EXCEPT !.result = comptime_expr(ev[e].stdout)]]
    /\ UNCHANGED <<args, dir_ok, dirents, files, content, f_vars, m_vars, r_vars, c_vars>>

\* 143-154: remove_file(..).ok() drops the error of a failed deletion; then
\* the function is returned with the result as its body
comptime_impl_remove(e) ==
    /\ At(e, "decl", "remove")
    /\ \E deny \in SUBSET {ev[e].comptime_rs, ev[e].comptime_bin} :
          LET fs1 == removed(files, ev[e].comptime_rs, deny) IN
          /\ files' = removed(fs1, ev[e].comptime_bin, deny)
          /\ ev' = [ev EXCEPT ![e] =
                       [Go(@, "cleanup", "done")
                           EXCEPT !.outcome = "result",
                                  !.returned = rewritten(ev[e].attrs, ev[e].vis,
                                                         ev[e].sig, ev[e].result),
                                  !.undeleted =
                                      {p \in {ev[e].comptime_rs} : remove_failed(files, p, deny)}
                                      \cup {p \in {ev[e].comptime_bin} : remove_failed(fs1, p, deny)}]]
    /\ content' = kept(content, files')
    /\ UNCHANGED <<args, dir_ok, dirents, f_vars, m_vars, r_vars, c_vars>>

(***************************************************************************)
(* cleanup on its own.                                                     *)
(***************************************************************************)
MaxFiles == 2

PathPool == {"comptime/comptime-1.rs", "comptime/comptime-2.rs", "d/comptime_bin", "d/x"}

\* the lists the entry point builds: no path twice
PathLists ==
    {l \in SeqsUpTo(PathPool, MaxFiles) : \A i, j \in DOMAIN l : l[i] = l[j] => i = j}

\* {:#?} of a Vec<&str>
RECURSIVE fmt_debug_items(_)
fmt_debug_items(list) ==
    IF list = <<>> THEN ""
    ELSE "    \"" \o Head(list) \o "\",\n" \o fmt_debug_items(Tail(list))

fmt_debug(list) == IF list = <<>> THEN "[]" ELSE "[\n" \o fmt_debug_items(list) \o "]"

\* line 163-165: the panic of cleanup, None when it returns
cleanup_panic(failed_files) ==
    IF failed_files # <<>>
    THEN Some(CleanupPanic \o ": \n" \o fmt_debug(failed_files))
    ELSE None

NotCalled == [called |-> FALSE, files |-> {}, failed_files |-> <<>>, panic |-> None]

c_Idle == c_files = {} /\ c_list = <<>> /\ c_deny = {} /\ c_out = NotCalled

c_Init ==
    /\ c_files \in SUBSET PathPool
    /\ c_list \in PathLists
    /\ c_deny \in SUBSET PathPool
    /\ c_out = NotCalled

\* cleanup(&cleanup_files); c_files stays what the disk held before the call
CallCleanup ==
    /\ ~c_out.called
    /\ LET c == cleanup(c_files, c_list, c_deny) IN
       c_out' = [called |-> TRUE, files |-> c.files, failed_files |-> c.failed_files,
                 panic |-> cleanup_panic(c.failed_files)]
    /\ UNCHANGED <<c_files, c_list, c_deny, f_vars, m_vars, p_vars, r_vars>>

(***************************************************************************)
(* One block from its capture to the value at the call site.  A value is   *)
(* a record [ty, n, s]: an integer n of type ty, or a string s.            *)
(***************************************************************************)
MaxDay == 2
MaxOperand == 2

Days == 1..MaxDay

IntVal(ty, n) == [ty |-> ty, n |-> n, s |-> ""]
StrVal(ty, s) == [ty |-> ty, n |-> 0, s |-> s]

\* u64::to_string and the like
RECURSIVE to_string(_)
to_string(n) ==
    IF n < 10 THEN char_at("0123456789", n + 1)
    ELSE to_string(n \div 10) \o char_at("0123456789", (n % 10) + 1)

\* the blocks of the tests and of the example, with operands:
\*   add      a + b
\*   size_of  std::mem::size_of::<[u8; a]>()
\*   format   format!("{} + {} = {}", a, b, a + b)
\*   quoted   format!("say \"{}\"", a)
\*   today    chrono::Utc::now().format("%Y-%m-%d").to_string()
SampleBlocks ==
    [kind : {"add", "format"}, a : 0..MaxOperand, b : 0..MaxOperand]
        \cup [kind : {"size_of", "quoted"}, a : 0..MaxOperand, b : {0}]
        \cup [kind : {"today"}, a : {0}, b : {0}]

\* the value of a block evaluated on a day
eval(block, day) ==
    CASE block.kind = "add" -> IntVal("i32", block.a + block.b)
      [] block.kind = "size_of" -> IntVal("usize", block.a)
      [] block.kind = "format" ->
             StrVal("String", to_string(block.a) \o " + " \o to_string(block.b)
                               \o " = " \o to_string(block.a + block.b))
      [] block.kind = "quoted" -> StrVal("String", "say \"" \o to_string(block.a) \o "\"")
      [] OTHER -> StrVal("String", "2024-01-0" \o to_string(day))

\* quote::quote!(#comptime_output): an integer is a suffixed literal, a
\* string a string literal
to_tokens(value) ==
    IF value.ty \in {"String", "&str"} THEN "\"" \o escape(value.s) \o "\""
    ELSE to_string(value.n) \o value.ty

\* the digits a token text starts with
RECURSIVE digits_len(_, _)
digits_len(tokens, i) ==
    IF i <= Len(tokens) /\ find("0123456789", char_at(tokens, i)) > 0
    THEN digits_len(tokens, i + 1) ELSE i - 1

RECURSIVE parse_digits(_, _)
parse_digits(tokens, k) ==
    IF k = 0 THEN 0
    ELSE parse_digits(tokens, k - 1) * 10 + (find("0123456789", char_at(tokens, k)) - 1)

\* the value of the tokens when they are one literal, as the compiler
\* evaluates them at the call site
value_of(tokens) ==
    LET str == lit_value(tokens)
        k == digits_len(tokens, 1)
        suffix == SubSeq(tokens, k + 1, Len(tokens))
    IN IF str.some THEN [some |-> TRUE, v |-> StrVal("&str", str.v)]
       ELSE IF k > 0 /\ suffix \in {"i32", "usize"}
       THEN [some |-> TRUE, v |-> IntVal(suffix, parse_digits(tokens, k))]
       ELSE [some |-> FALSE, v |-> StrVal("", "")]

\* PartialEq: integers of one type, or the texts of two strings
RustEq(x, y) ==
    IF x.ty \in {"String", "&str"} THEN y.ty \in {"String", "&str"} /\ x.s = y.s
    ELSE x.ty = y.ty /\ x.n = y.n

r_Idle ==
    /\ r_block = [kind |-> "", a |-> 0, b |-> 0] /\ r_built = 0 /\ r_run = 0
    /\ r_pc = "idle" /\ r_stdout = "" /\ r_spliced = ""

\* a block captured on the day of the build; the built program runs on
\* that day or later
r_Init ==
    /\ r_block \in SampleBlocks
    /\ r_built \in Days /\ r_run \in Days /\ r_built <= r_run
    /\ r_pc = "helper" /\ r_stdout = "" /\ r_spliced = ""

\* lib.rs 104-113: the helper evaluates the block and prints its tokens
HelperMain ==
    /\ r_pc = "helper"
    /\ r_stdout' = to_tokens(eval(r_block, r_built))
    /\ r_pc' = "splice"
    /\ UNCHANGED <<r_block, r_built, r_run, r_spliced, f_vars, m_vars, p_vars, c_vars>>

\* lib.rs 155-171: the output is parsed (a literal is an expression) and
\* the expression is returned
SpliceOutput ==
    /\ r_pc = "splice"
    /\ r_spliced' = comptime_expr([text |-> r_stdout, utf8 |-> TRUE,
                                   expr |-> value_of(r_stdout).some])
    /\ r_pc' = "done"
    /\ UNCHANGED <<r_block, r_built, r_run, r_stdout, f_vars, m_vars, p_vars, c_vars>>

vars == <<f_vars, m_vars, p_vars, r_vars, c_vars>>

ArgsInit == f_Init /\ m_Idle /\ p_Idle /\ r_Idle /\ c_Idle
ArgsNext == ReconstructExpr \/ ReconstructDecl
SpecArgs == ArgsInit /\ [][ArgsNext]_vars

MergeInit == m_Init(MaxDeps, 1) /\ f_Idle /\ p_Idle /\ r_Idle /\ c_Idle
MergeNext == MergeExpr \/ MergeDecl
SpecMerge == MergeInit /\ [][MergeNext]_vars

\* the merger called twice on one Build Context and one directory state
IdemInit == m_Init(MaxDeps - 1, 2) /\ f_Idle /\ p_Idle /\ r_Idle /\ c_Idle
SpecIdem == IdemInit /\ [][MergeNext]_vars

\* one evaluation, of either form
Init == p_Init(1) /\ f_Idle /\ m_Idle /\ r_Idle /\ c_Idle

\* a step of evaluation e
Step(e) ==
        \/ comptime_parse(e) \/ comptime_out_dir(e) \/ comptime_write(e)
        \/ comptime_filter(e) \/ comptime_merge(e) \/ comptime_rustc(e)
        \/ comptime_run(e) \/ comptime_splice(e) \/ comptime_remove(e)
        \/ comptime_impl_parse(e) \/ comptime_impl_create_dir(e)
        \/ comptime_impl_open(e) \/ comptime_impl_write(e)
        \/ comptime_impl_out_dir(e) \/ comptime_impl_filter(e)
        \/ comptime_impl_merge(e) \/ comptime_impl_rustc(e)
        \/ comptime_impl_run(e) \/ comptime_impl_splice(e)
        \/ comptime_impl_remove(e)

Next == Step(1)

Spec == Init /\ [][Next]_vars

\* one call of cleanup
CleanupInit == c_Init /\ f_Idle /\ m_Idle /\ p_Idle /\ r_Idle
CleanupNext == CallCleanup
SpecCleanup == CleanupInit /\ [][CleanupNext]_vars

\* one block, evaluated by the helper and spliced
RoundInit == r_Init /\ f_Idle /\ m_Idle /\ p_Idle /\ c_Idle
RoundNext == HelperMain \/ SpliceOutput
SpecRound == RoundInit /\ [][RoundNext]_vars

\* two evaluations whose steps interleave
ConcInit == p_Concurrent /\ f_Idle /\ m_Idle /\ r_Idle /\ c_Idle
ConcNext == Step(1) \/ Step(2)
SpecConc == ConcInit /\ [][ConcNext]_vars


(***************************************************************************)
(* Properties of one evaluation.                                           *)
(***************************************************************************)
Done(e) == ev[e].pc = "done"
IsError(e) == ev[e].outcome \in {"compile_error", "panic"}

\* the files an evaluation created that are still on disk although no
\* deletion of them was refused
LeftBehind(e) == (ev[e].created \cap files) \ ev[e].undeleted

\* C1: an evaluation that ends in success or in a failure of a stage after
\* Synthesize (merge, build, run, splice) ends with Cleanup as its last
\* stage, and none of the files it created is left on disk.
C1_CleanupLast ==
    \A e \in DOMAIN ev :
        (Done(e) /\ ev[e].failure \in {"", "merge", "build", "run", "splice"}) =>
            /\ Last(ev[e].stages) = "cleanup"
            /\ LeftBehind(e) = {}

\* C2: an evaluation that could not delete one of its temporary files ends
\* with the cleanup-failure error, on the success path too; it never
\* returns a result.
C2_DeletionFailureReported ==
    \A e \in DOMAIN ev :
        (Done(e) /\ ev[e].undeleted # {}) =>
            /\ IsError(e)
            /\ CleanupPanic \in Range(ev[e].reported)

\* C3: when a stage failed and the cleanup failed too, the first error
\* reported is the failure of the stage, not the cleanup failure.
C3_EvaluationFailureFirst ==
    \A e \in DOMAIN ev :
        (Done(e) /\ ev[e].failure # "" /\ ev[e].undeleted # {}) =>
            /\ ev[e].reported # <<>>
            /\ ev[e].reported[1] # CleanupPanic

\* C4: with no --out-dir <value> in the Build Context the evaluation ends
\* with an error and no helper file written by it exists at its end.
C4_NoOutDirNoFiles ==
    \A e \in DOMAIN ev :
        (Done(e) /\ ~get_arg(args[e], "--out-dir").some) =>
            /\ IsError(e)
            /\ LeftBehind(e) = {}

\* C5: a result is returned only if every stage succeeded, Cleanup
\* included; after any failure the evaluation ends with an error.
C5_ResultOnlyOnSuccess ==
    \A e \in DOMAIN ev :
        /\ ev[e].outcome = "result" => (ev[e].failure = "" /\ ev[e].undeleted = {})
        /\ (Done(e) /\ (ev[e].failure # "" \/ ev[e].undeleted # {})) => IsError(e)

\* the evaluations that decoded the output of their helper
Spliced(e) ==
    /\ ev[e].pc \in {"remove", "done"}
    /\ "splice" \in Range(ev[e].stages)
    /\ ev[e].stdout.utf8

\* C13: an output that is UTF-8 and does not parse as an expression is
\* spliced as one string literal whose value is exactly the output, and
\* this is no failure; an output that parses is spliced as it is.
C13_LiteralFallback ==
    \A e \in DOMAIN ev :
        Spliced(e) =>
            /\ ev[e].failure = ""
            /\ ~ev[e].stdout.expr => lit_value(ev[e].result) = Some(ev[e].stdout.text)
            /\ ev[e].stdout.expr => ev[e].result = ev[e].stdout.text

\* C13 witness: a result was returned for an output that holds quotes and
\* a backslash and is no expression.
C13_Witness ==
    \E e \in DOMAIN ev :
        /\ Done(e) /\ ev[e].outcome = "result"
        /\ ~ev[e].stdout.expr
        /\ find(ev[e].stdout.text, "\"") > 0
        /\ find(ev[e].stdout.text, "\\") > 0

\* a block whose value does not depend on the day it is evaluated
Deterministic(block) == \A d1, d2 \in Days : eval(block, d1) = eval(block, d2)

\* the spliced tokens evaluate to the value of the block evaluated directly
\* when the program runs
RoundTrips ==
    /\ value_of(r_spliced).some
    /\ RustEq(value_of(r_spliced).v, eval(r_block, r_run))

SourceInUse(form) ==
    IF form = "expr" THEN {"filter", "merge", "rustc"}
    ELSE {"out_dir", "filter", "merge", "rustc"}

\* C11: two evaluations never have the same helper source file name; the
\* steps of an interleaving happen at different times, so this covers two
\* different blocks as well as one block evaluated twice.
C11_NamesNeverCollide ==
    \A e1, e2 \in DOMAIN ev :
        (e1 # e2 /\ ev[e1].comptime_rs # "" /\ ev[e2].comptime_rs # "") =>
            ev[e1].comptime_rs # ev[e2].comptime_rs

\* C12: while an evaluation needs its helper source, the file exists and
\* holds its own block; while it is about to run its helper binary, the
\* file exists and was built from its own block; and the binary it ran was
\* built from its own block.  No other evaluation has overwritten or
\* deleted these files.
C12_OwnFilesOnly ==
    \A e \in DOMAIN ev :
        /\ ev[e].pc \in SourceInUse(ev[e].form) =>
              /\ ev[e].comptime_rs \in files
              /\ content[ev[e].comptime_rs] = ev[e].block
        /\ ev[e].pc = "run" =>
              /\ ev[e].comptime_bin \in files
              /\ content[ev[e].comptime_bin] = ev[e].block
        /\ ev[e].ran.some => ev[e].ran.v = ev[e].block

(***************************************************************************)
(* Vocabulary of the properties of the dependency merger, read off the     *)
(* inputs and the returned flags only.                                     *)
(***************************************************************************)
\* what precedes, and what follows, the first '=' of a flag value
NameOf(x) == IF find(x, "=") = 0 THEN x ELSE SubSeq(x, 1, find(x, "=") - 1)
PathOf(x) == IF find(x, "=") = 0 THEN "" ELSE SubSeq(x, find(x, "=") + 1, Len(x))

\* the <<name, path>> of every --extern name=path of args with an .rlib path
ExplicitDecls(ctx) ==
    {<<NameOf(ctx[i + 1]), PathOf(ctx[i + 1])>> :
        i \in {j \in 1..(Len(ctx) - 1) :
                  ctx[j] = "--extern" /\ ends_with(PathOf(ctx[j + 1]), ".rlib")}}

\* the artifacts lib<name>-<disambiguator>.rlib of a directory listing
Discovered(listing) ==
    {[name |-> SubSeq(listing[i].fname, 4, rfind(listing[i].fname, "-") - 1),
      path |-> deps_dir \o "/" \o listing[i].fname,
      created |-> listing[i].created, pos |-> i] :
        i \in {j \in DOMAIN listing :
                  /\ starts_with(listing[j].fname, "lib")
                  /\ ends_with(listing[j].fname, ".rlib")
                  /\ rfind(listing[j].fname, "-") > 3}}

\* the <<name, path>> of every pair --extern name=path of a returned list
LinkedPairs(flags) ==
    {<<NameOf(flags[i + 1]), PathOf(flags[i + 1])>> :
        i \in {j \in 1..(Len(flags) - 1) : j % 2 = 1 /\ flags[j] = "--extern"}}

LinkedPaths(flags, n) == {pr[2] : pr \in {q \in LinkedPairs(flags) : q[1] = n}}

\* the runs of the merger that returned a list
Returned == {k \in DOMAIN m_runs : m_runs[k].err = ""}

\* how often x occurs in the sequence l
Count(l, x) == Cardinality({i \in DOMAIN l : l[i] = x})

\* C6: a library name that is both declared with --extern name=path (an
\* .rlib path) and discovered as lib<name>-<disambiguator>.rlib is linked
\* to a declared path and to no other path.
C6_ExplicitWins ==
    \A k \in Returned :
        \A d \in ExplicitDecls(m_args) :
            (\E a \in Discovered(m_dirents) : a.name = d[1]) =>
                LET linked == LinkedPaths(m_runs[k].flags, d[1]) IN
                /\ linked # {}
                /\ linked \subseteq {e[2] : e \in {x \in ExplicitDecls(m_args) : x[1] = d[1]}}

\* C7: the returned list holds at most one --extern pair per emitted
\* library name.
C7_Deduplicated ==
    \A k \in Returned :
        LET flags == m_runs[k].flags IN
        \A i, j \in {x \in DOMAIN flags : x % 2 = 0} :
            NameOf(flags[i]) = NameOf(flags[j]) => i = j

C18_SameFlagLists ==
    \A k \in Returned :
        m_runs[k].form = "expr" =>
            /\ \E order \in Orders(DOMAIN m_runs[k].rlibs) :
                  LET r == merge_externs_impl(deps_dir, m_args, m_dir_ok, m_dirents, order)
                  IN r.err = "" /\ r.flags = m_runs[k].flags
            /\ filter_rustc_args_impl(m_args) = filter_rustc_args(m_args)

contains(s, sub) ==
    \E i \in 1..(Len(s) - Len(sub) + 1) : SubSeq(s, i, i + Len(sub) - 1) = sub

\* a deletion of the path, tried on the disk as it was, succeeds
Removable(path) == path \in c_files /\ path \notin c_deny

\* the error of the call names the path
Listed(path) ==
    c_out.panic.some /\ contains(c_out.panic.v, "\"" \o path \o "\"")

\* C20: cleanup tries every path of its list, also after a deletion
\* failed: every path that can be deleted is gone afterwards and nothing
\* else is touched; it panics exactly when a deletion failed, and the
\* panic names exactly the paths that could not be deleted.
C20_CleanupTriesAll ==
    c_out.called =>
        /\ \A path \in Range(c_list) :
              /\ Removable(path) => path \notin c_out.files
              /\ ~Removable(path) => (path \in c_out.files <=> path \in c_files)
        /\ c_out.files \ Range(c_list) = c_files \ Range(c_list)
        /\ c_out.panic.some <=> (\E path \in Range(c_list) : ~Removable(path))
        /\ \A path \in PathPool :
              Listed(path) <=> (path \in Range(c_list) /\ ~Removable(path))

\* C20 witness: a deletion failed, a later path of the list was deleted all
\* the same, and the panic names the first and not the second.
C20_Witness ==
    /\ c_out.called
    /\ \E i, j \in DOMAIN c_list :
          /\ i < j /\ ~Removable(c_list[i]) /\ Removable(c_list[j])
          /\ c_list[j] \notin c_out.files
          /\ Listed(c_list[i]) /\ ~Listed(c_list[j])

(***************************************************************************)
(* Properties of the subprocesses, of the rewritten function and of the    *)
(* errors of the merger.                                                   *)
(***************************************************************************)
\* C15: an evaluation whose compiler or helper exited unsuccessfully ends
\* with an error that holds the bytes of that standard error as they are;
\* and after an unsuccessful build the helper is not executed.
C15_StderrVerbatim ==
    \A e \in DOMAIN ev :
        (Done(e) /\ ev[e].stderr.some) =>
            /\ IsError(e)
            /\ \E i \in DOMAIN ev[e].reported : contains(ev[e].reported[i], ev[e].stderr.v)
            /\ ev[e].failure = "build" =>
                  ("run" \notin Range(ev[e].stages) /\ ~ev[e].ran.some)

\* C16: the function that #[comptime_fn] returns has the attributes, the
\* visibility and the signature of the function it was given, and its
\* block holds the result expression and nothing else.
C16_OnlyBodyChanges ==
    \A e \in DOMAIN ev :
        (ev[e].form = "decl" /\ ev[e].outcome = "result") =>
            /\ ev[e].returned.attrs = ev[e].attrs
            /\ ev[e].returned.vis = ev[e].vis
            /\ ev[e].returned.sig = ev[e].sig
            /\ ev[e].returned.block = <<ev[e].result>>

\* C16 witness: a public function with attributes was rewritten.
C16_Witness ==
    \E e \in DOMAIN ev :
        /\ ev[e].form = "decl" /\ ev[e].outcome = "result"
        /\ ev[e].vis = "pub" /\ ev[e].attrs # <<>>
        /\ ev[e].returned.block = <<ev[e].result>>

\* the position of a stage in the history of an evaluation, 0 if absent
StageAt(e, stage) ==
    IF stage \in Range(ev[e].stages)
    THEN CHOOSE i \in DOMAIN ev[e].stages : ev[e].stages[i] = stage
    ELSE 0

\* C17: no stage of an evaluation is executed twice, so the compiler and
\* the helper are invoked at most once; the helper is run only after a
\* build that succeeded, the output is decoded only after a run that
\* succeeded; and a failure ends the evaluation: only Cleanup may follow
\* the stage that failed.
C17_NoRetry ==
    \A e \in DOMAIN ev :
        /\ \A st \in Range(ev[e].stages) : Count(ev[e].stages, st) = 1
        /\ "run" \in Range(ev[e].stages) =>
              /\ 0 < StageAt(e, "build") /\ StageAt(e, "build") < StageAt(e, "run")
              /\ ev[e].failure # "build"
        /\ "splice" \in Range(ev[e].stages) =>
              /\ 0 < StageAt(e, "run") /\ StageAt(e, "run") < StageAt(e, "splice")
              /\ ev[e].failure # "run"
        /\ ev[e].failure # "" =>
              /\ Done(e)
              /\ \A i \in DOMAIN ev[e].stages :
                    i > StageAt(e, ev[e].failure) => ev[e].stages[i] = "cleanup"

\* C17 witness: an evaluation failed in the run of its helper, after one
\* build and one run.
C17_Witness ==
    \E e \in DOMAIN ev :
        /\ Done(e) /\ ev[e].failure = "run"
        /\ Count(ev[e].stages, "build") = 1 /\ Count(ev[e].stages, "run") = 1

\* the inputs that the merger is to reject: the output directory cannot be
\* read, an artifact lib*.rlib has no '-', an --extern value has no '='
MergerErrorInput(e) ==
    \/ ~dir_ok
    \/ \E i \in DOMAIN dirents :
          /\ starts_with(dirents[i].fname, "lib") /\ ends_with(dirents[i].fname, ".rlib")
          /\ find(dirents[i].fname, "-") = 0
    \/ \E i \in 1..(Len(args[e]) - 1) :
          args[e][i] = "--extern" /\ find(args[e][i + 1], "=") = 0

\* C19: an evaluation that reached the merger fails there exactly when
\* the input is one of the three to reject, and then Cleanup is its last
\* stage and none of the files it created is left.
C19_MergerErrors ==
    \A e \in DOMAIN ev :
        (Done(e) /\ "merge" \in Range(ev[e].stages)) =>
            /\ ev[e].failure = "merge" <=> MergerErrorInput(e)
            /\ ev[e].failure = "merge" =>
                  (Last(ev[e].stages) = "cleanup" /\ LeftBehind(e) = {})

(***************************************************************************)
(* Vocabulary of the properties of the reconstructed argument list.        *)
(***************************************************************************)
\* the values that a list declares for a flag, in order: the argument after
\* each occurrence of the flag, and what follows "flag=" in one argument
RECURSIVE Declared(_, _, _)
Declared(l, flag, i) ==
    IF i > Len(l) THEN <<>>
    ELSE IF l[i] = flag /\ i < Len(l) THEN <<l[i + 1]>> \o Declared(l, flag, i + 2)
    ELSE IF starts_with(l[i], flag \o "=")
    THEN <<SubSeq(l[i], Len(flag) + 2, Len(l[i]))>> \o Declared(l, flag, i + 1)
    ELSE Declared(l, flag, i + 1)

\* the arguments the filter is to drop wherever they stand
DroppedKind(arg) ==
    \/ arg \in {"--crate-type", "--crate-name", "--extern", "--test", "rustc"}
    \/ ends_with(arg, ".rs")
    \/ starts_with(arg, "--emit")

\* C10: the reconstructed list declares the crate name once, as
\* comptime_bin, and the crate type once, as bin, and what the filter kept
\* holds no crate-type, crate-name or extern flag, no .rs argument, no
\* --test, no rustc and no --emit argument.
C10_DeclaresOnce ==
    f_form # "" =>
        /\ Declared(f_rustc_args, "--crate-name", 1) = <<"comptime_bin">>
        /\ Declared(f_rustc_args, "--crate-type", 1) = <<"bin">>
        /\ \A i \in 1..(Len(f_rustc_args) - Len(FixedFlags)) :
              ~DroppedKind(f_rustc_args[i])

====
